---- MODULE Spec2Model ----
(***************************************************************************)
(* A model of test-server/server.js: a fastify listener on port 24420 with *)
(* one route, POST /, whose handler logs an arrival line and answers with  *)
(* a 300 KiB random payload.                                               *)
(*                                                                         *)
(* Four specifications share the variables:                                *)
(*   Spec        the process: start(), the listener and the route handler  *)
(*   GenSpec     generateRandomString run step by step for every size      *)
(*   GenFairSpec GenSpec with the loop scheduled (a running JS function    *)
(*               keeps running), for termination                           *)
(*   TsSpec      formatTimestamp applied to the values a Date can hold     *)
(*                                                                         *)
(* A JavaScript string is a sequence of pieces.  A timestamp is a sequence *)
(* of one-character strings.  A random payload is a sequence of segments   *)
(* that name the calls of crypto.randomBytes their characters came from;   *)
(* what the bytes are is left open, which call they came from is not.      *)
(*                                                                         *)
(* JavaScript runs one callback at a time.  The continuation of the await  *)
(* in start() runs before any I/O callback, so no request is processed     *)
(* before the running message is logged, and the handler, which awaits     *)
(* nothing, runs from its first line to its return in one step.            *)
(***************************************************************************)
EXTENDS Integers, Sequences, FiniteSets, TLC

VARIABLES
    pc,        \* position of start(): "start", "catch", "bound", "running", "exited"
    exitCode,  \* <<>> while the process lives, <<code>> after process.exit(code)
    stdout,    \* console.log lines, oldest first
    stderr,    \* console.error lines, oldest first
    busyPorts, \* the TCP ports some other process holds
    reqs,      \* per client request: what was sent and how far it got
    resp,      \* per client request: the responses written for it
    drawn,     \* number of crypto.randomBytes calls made so far
    gen,       \* generateRandomString run alone: [pc, sizeInKB, result, ret, draws]
    fmt        \* formatTimestamp run alone: [pc, now, out]

vars == <<pc, exitCode, stdout, stderr, busyPorts, reqs, resp, drawn, gen, fmt>>

serverVars == <<pc, exitCode, stdout, stderr, busyPorts, reqs, resp>>

(***************************************************************************)
(* Bounds of the model.                                                    *)
(***************************************************************************)
MaxReqs == 2

MaxSizeInKB == 300

Requests == 1..MaxReqs

(***************************************************************************)
(* String helpers: toString, padStart, substring, length.                  *)
(***************************************************************************)
Digits == <<"0", "1", "2", "3", "4", "5", "6", "7", "8", "9">>

RECURSIVE toString(_)
toString(n) ==
    IF n < 10 THEN <<Digits[n + 1]>>
    ELSE toString(n \div 10) \o <<Digits[(n % 10) + 1]>>

RECURSIVE padStart(_, _, _)
padStart(s, targetLength, padString) ==
    IF Len(s) >= targetLength THEN s
    ELSE padStart(<<padString>> \o s, targetLength, padString)

\* new Date(): the local-time fields a Date object can report
Hours == 0..23

Minutes == 0..59

Seconds == 0..59

Milliseconds == 0..999

\* a faulty variant: the sub-second field padded to the 3 digits a millisecond needs
millisecondsField3(now) == padStart(toString(now.ms), 3, "0")

millisecondsField(now) == padStart(toString(now.ms), 6, "0")

formatTimestamp(now) ==
    LET hours == padStart(toString(now.h), 2, "0")
        minutes == padStart(toString(now.m), 2, "0")
        seconds == padStart(toString(now.s), 2, "0")
        milliseconds == millisecondsField(now)
    IN  <<"[">> \o hours \o <<":">> \o minutes \o <<":">> \o seconds
            \o <<".">> \o milliseconds \o <<"]">>

(***************************************************************************)
(* Random payloads.  A payload string is [segs, length]: its segments and  *)
(* the length property the string carries.  A segment [src, count, len] is *)
(* the first len characters of the base64 text of each of the count calls  *)
(* of crypto.randomBytes numbered src, src + 1, ...                        *)
(***************************************************************************)
EmptyString == [segs |-> <<>>, length |-> 0]

\* two segments that read as one: the same number of characters from
\* consecutive draws
Adjoins(x, y) == x.len = y.len /\ y.src = x.src + x.count

\* a + b on strings
concat(a, b) ==
    [segs |->
        IF a.segs /= <<>> /\ b.segs /= <<>> /\ Adjoins(a.segs[Len(a.segs)], Head(b.segs))
        THEN SubSeq(a.segs, 1, Len(a.segs) - 1)
                 \o <<[src |-> a.segs[Len(a.segs)].src,
                       count |-> a.segs[Len(a.segs)].count + Head(b.segs).count,
                       len |-> Head(b.segs).len]>>
                 \o Tail(b.segs)
        ELSE a.segs \o b.segs,
     length |-> a.length + b.length]

\* the characters of a string, counted segment by segment
countChars(str) ==
    LET count[i \in Nat] ==
            IF i > Len(str.segs) THEN 0
            ELSE str.segs[i].count * str.segs[i].len + count[i + 1]
    IN  count[1]

\* the calls of crypto.randomBytes whose bytes a string holds
SegSources(str) ==
    UNION {str.segs[i].src..(str.segs[i].src + str.segs[i].count - 1) :
               i \in 1..Len(str.segs)}

\* crypto.randomBytes(size), the id-th call: a Buffer of size opaque bytes
randomBytes(size, id) == [src |-> id, bytes |-> size]

\* a faulty variant: base64 without the "=" padding
base64LengthUnpadded(n) == (4 * n + 2) \div 3

\* Buffer.toString('base64') turns each started group of 3 bytes into 4 characters
base64Length(n) == 4 * ((n + 2) \div 3)

toBase64(buf) ==
    IF buf.bytes = 0 THEN EmptyString
    ELSE [segs |-> <<[src |-> buf.src, count |-> 1, len |-> base64Length(buf.bytes)]>>,
          length |-> base64Length(buf.bytes)]

\* the first n characters of a segment that holds more than n
firstOfSegment(seg, n) ==
    (IF n \div seg.len > 0
     THEN <<[src |-> seg.src, count |-> n \div seg.len, len |-> seg.len]>>
     ELSE <<>>)
        \o (IF n % seg.len > 0
            THEN <<[src |-> seg.src + (n \div seg.len), count |-> 1, len |-> n % seg.len]>>
            ELSE <<>>)

\* a faulty variant: the accumulator returned as it is, not cut
substringAll(str, end) == str

\* String.prototype.substring(0, end): end is clamped to 0..str.length
substring(str, end) ==
    LET e == IF end < 0 THEN 0 ELSE IF end > str.length THEN str.length ELSE end
        cut[p \in Nat \X Nat] ==
            \* p = <<segment, characters still to take>>
            IF p[1] > Len(str.segs) \/ p[2] = 0 THEN <<>>
            ELSE IF str.segs[p[1]].count * str.segs[p[1]].len <= p[2]
                 THEN <<str.segs[p[1]]>>
                          \o cut[<<p[1] + 1,
                                   p[2] - str.segs[p[1]].count * str.segs[p[1]].len>>]
                 ELSE firstOfSegment(str.segs[p[1]], p[2])
    IN  [segs |-> cut[<<1, e>>], length |-> e]

chunkBytes == 1024

\* The loop of generateRandomString works on st = [result, id]: the
\* accumulator, and the number the next call of crypto.randomBytes will have.
loopStart(firstId) == [result |-> EmptyString, id |-> firstId]

\* while (result.length < sizeInBytes)
loopCond(st, sizeInBytes) == st.result.length < sizeInBytes

\* result += crypto.randomBytes(1024).toString('base64')
loopBody(st) ==
    [result |-> concat(st.result, toBase64(randomBytes(chunkBytes, st.id))),
     id |-> st.id + 1]

Segments == [src : Nat, count : Nat, len : Nat]

LoopStates == [result : [segs : Seq(Segments), length : Nat], id : Nat]

\* the loop run from st for at most k iterations: the first half of them,
\* then the rest from the state the first half left
whileLoop(st, sizeInBytes, k) ==
    LET run[p \in LoopStates \X Nat] ==
            IF p[2] = 0 \/ ~loopCond(p[1], sizeInBytes) THEN p[1]
            ELSE IF p[2] = 1 THEN loopBody(p[1])
            ELSE run[<<run[<<p[1], p[2] \div 2>>], p[2] - (p[2] \div 2)>>]
    IN  run[<<st, k>>]

\* every iteration appends base64Length(chunkBytes) characters, so this many
\* iterations reach sizeInBytes characters if any number does
enoughIterations(sizeInBytes) ==
    IF base64Length(chunkBytes) = 0 THEN 1
    ELSE (sizeInBytes \div base64Length(chunkBytes)) + 1

\* One call generateRandomString(sizeInKB) when firstId - 1 draws were made
\* before it: [returned, ret, draws].  A call whose loop has not ended after
\* enoughIterations has not returned.
callGenerateRandomString(sizeInKB, firstId) ==
    LET sizeInBytes == sizeInKB * 1024
    IN  CHOOSE call \in
            {[returned |-> ~loopCond(st, sizeInBytes),
              ret |-> substring(st.result, sizeInBytes),
              draws |-> st.id - firstId] :
                 st \in {whileLoop(loopStart(firstId), sizeInBytes,
                                   enoughIterations(sizeInBytes))}} :
            TRUE

\* a faulty variant: the payload built from the first draws and handed out again
generateRandomStringCached(sizeInKB, firstId) ==
    callGenerateRandomString(sizeInKB, 1)

generateRandomString(sizeInKB, firstId) ==
    callGenerateRandomString(sizeInKB, firstId)

(***************************************************************************)
(* The listener: fastify({ http2: false, logger: false }) with one route.  *)
(***************************************************************************)
\* the http2 option given to the fastify factory
http2 == FALSE

port == 24420

\* the framings a client can speak on a cleartext TCP connection
Framings == {"HTTP/1.1", "h2c"}

Methods == {"POST", "GET"}

Urls == {"/", "/other"}

\* what a client may send as my_id: nothing, or one of these values
MyIdValues == {"", "abc123"}

MyIdHeaders == {<<>>} \cup {<<v>> : v \in MyIdValues}

\* the clock readings a handler run may see
HandlerClocks == {[h |-> 9, m |-> 5, s |-> 0, ms |-> 7],
                  [h |-> 23, m |-> 59, s |-> 59, ms |-> 999]}

\* The server the factory builds: with http2 false a Node http.Server, which
\* parses HTTP/1.1 only (the HTTP/2 connection preface is a parse error);
\* with http2 true and no https a Node http2 server, which speaks h2c only.
serves(framing) ==
    IF http2 THEN framing = "h2c" ELSE framing = "HTTP/1.1"

\* request.headers: the header fields sent, plus, over HTTP/2 framing, the
\* pseudo-headers (an HTTP/1.1 field name cannot start with a colon)
headersOf(req) ==
    [n \in (IF req.my_id = <<>> THEN {} ELSE {"my_id"})
            \cup (IF req.framing = "h2c" THEN {":scheme"} ELSE {}) |->
        IF n = "my_id" THEN req.my_id[1] ELSE "http"]

\* headers[name]: <<>> for undefined, <<value>> otherwise
get(headers, name) ==
    IF name \in DOMAIN headers THEN <<headers[name]>> ELSE <<>>

\* JavaScript truthiness of undefined or a string
truthy(v) == v /= <<>> /\ v[1] /= ""

\* a faulty variant: a route that matches the path whatever the method
routeMatchesAnyMethod(req) == req.url = "/"

\* http11Server.post('/', handler): the one route of the router
routeMatches(req) == req.method = "POST" /\ req.url = "/"

\* const myId = request.headers['my_id'] || 'unknown'
myIdOf(headers) ==
    IF truthy(get(headers, "my_id")) THEN get(headers, "my_id")[1] ELSE "unknown"

\* a faulty variant: the label decided by a header every request carries
protocolOfAlwaysH2(headers) == "HTTP/2"

\* const protocol = request.headers[':scheme'] ? 'HTTP/2' : 'HTTP/1.1'
protocolOf(headers) ==
    IF truthy(get(headers, ":scheme")) THEN "HTTP/2" ELSE "HTTP/1.1"

\* `${formatTimestamp()} ${myId} arrived (${protocol})`
arrivalLine(now, myId, protocol) ==
    formatTimestamp(now) \o <<" ", myId, " arrived (", protocol, ")">>

runningLine == <<"HTTP server (HTTP/1.1) is running on port 24420">>

payloadSizeInKB == 300

\* a faulty variant: a handler that answers with a different status word
handlerResultFail(data) == [status |-> "fail", data |-> data]

\* return { status: 'ok', data: response_body }
handlerResult(data) == [status |-> "ok", data |-> data]

\* a request not sent yet; lines and draws record what a handler run for the
\* request wrote to stdout (indexes) and drew from crypto.randomBytes (first, last)
NoRequest == [state |-> "idle", lines |-> <<>>, draws |-> <<>>]

GenIdle == [pc |-> "idle"]

FmtIdle == [pc |-> "idle"]

(***************************************************************************)
(* The process.                                                            *)
(***************************************************************************)
Init ==
    /\ pc = "start"
    /\ exitCode = <<>>
    /\ stdout = <<>>
    /\ stderr = <<>>
    /\ busyPorts \in {{}, {port}}
    /\ reqs = [r \in Requests |-> NoRequest]
    /\ resp = [r \in Requests |-> <<>>]
    /\ drawn = 0
    /\ gen = GenIdle
    /\ fmt = FmtIdle

\* await http11Server.listen({ port: 24420, host: '0.0.0.0' }) resolves
ListenOk ==
    /\ pc = "start"
    /\ port \notin busyPorts
    /\ pc' = "bound"
    /\ UNCHANGED <<exitCode, stdout, stderr, busyPorts, reqs, resp, drawn, gen, fmt>>

\* console.log('HTTP server (HTTP/1.1) is running on port 24420')
LogRunning ==
    /\ pc = "bound"
    /\ stdout' = Append(stdout, runningLine)
    /\ pc' = "running"
    /\ UNCHANGED <<exitCode, stderr, busyPorts, reqs, resp, drawn, gen, fmt>>

\* a faulty variant: the message logged before the outcome of listen is known
ListenFailLogged ==
    /\ pc = "start"
    /\ port \in busyPorts
    /\ stdout' = Append(stdout, runningLine)
    /\ pc' = "catch"
    /\ UNCHANGED <<exitCode, stderr, busyPorts, reqs, resp, drawn, gen, fmt>>

\* await http11Server.listen(...) rejects (EADDRINUSE): control enters catch
ListenFail ==
    /\ pc = "start"
    /\ port \in busyPorts
    /\ pc' = "catch"
    /\ UNCHANGED <<exitCode, stdout, stderr, busyPorts, reqs, resp, drawn, gen, fmt>>

\* catch (err) { console.error(err); process.exit(1) }
Catch ==
    /\ pc = "catch"
    /\ stderr' = Append(stderr, <<"EADDRINUSE">>)
    /\ exitCode' = <<1>>
    /\ pc' = "exited"
    /\ UNCHANGED <<stdout, busyPorts, reqs, resp, drawn, gen, fmt>>

\* a client connects to the port and sends a request; requests are numbered
\* in the order they are sent
Send(r) ==
    /\ pc \in {"bound", "running"}
    /\ reqs[r].state = "idle"
    /\ \A q \in Requests : q < r => reqs[q].state /= "idle"
    /\ \E f \in Framings, m \in Methods, u \in Urls, id \in MyIdHeaders :
          reqs' = [reqs EXCEPT ![r] =
                     [state |-> "sent", lines |-> <<>>, draws |-> <<>>, framing |-> f,
                      method |-> m, url |-> u, my_id |-> id]]
    /\ UNCHANGED <<pc, exitCode, stdout, stderr, busyPorts, resp, drawn, gen, fmt>>

\* the server reads bytes it cannot parse: 400, no routing
Reject(r) ==
    /\ pc = "running"
    /\ reqs[r].state = "sent"
    /\ ~serves(reqs[r].framing)
    /\ reqs' = [reqs EXCEPT ![r].state = "done"]
    /\ resp' = [resp EXCEPT ![r] = Append(@, [status |-> 400, handled |-> FALSE])]
    /\ UNCHANGED <<pc, exitCode, stdout, stderr, busyPorts, drawn, gen, fmt>>

\* no route matches: the library's default 404 reply
NotFound(r) ==
    /\ pc = "running"
    /\ reqs[r].state = "sent"
    /\ serves(reqs[r].framing)
    /\ ~routeMatches(reqs[r])
    /\ reqs' = [reqs EXCEPT ![r].state = "done"]
    /\ resp' = [resp EXCEPT ![r] = Append(@, [status |-> 404, handled |-> FALSE])]
    /\ UNCHANGED <<pc, exitCode, stdout, stderr, busyPorts, drawn, gen, fmt>>

\* the route handler, run to its return (it awaits nothing), and the reply
\* the library sends for the object it returns: status 200, the object as JSON
Handle(r) ==
    /\ pc = "running"
    /\ reqs[r].state = "sent"
    /\ serves(reqs[r].framing)
    /\ routeMatches(reqs[r])
    /\ \E call \in {generateRandomString(payloadSizeInKB, drawn + 1)} :
       \E now \in HandlerClocks :
          LET headers == headersOf(reqs[r])
              myId == myIdOf(headers)
              protocol == protocolOf(headers)
              response_body == call.ret
          IN  /\ call.returned
              /\ stdout' = Append(stdout, arrivalLine(now, myId, protocol))
              /\ drawn' = drawn + call.draws
              /\ reqs' = [reqs EXCEPT ![r].state = "done",
                                      ![r].lines = <<Len(stdout) + 1>>,
                                      ![r].draws = <<drawn + 1, drawn + call.draws>>]
              /\ resp' = [resp EXCEPT ![r] =
                           Append(@, [status |-> 200, handled |-> TRUE,
                                      body |-> handlerResult(response_body)])]
    /\ UNCHANGED <<pc, exitCode, stderr, busyPorts, gen, fmt>>

Next ==
    \/ ListenOk
    \/ LogRunning
    \/ ListenFail
    \/ Catch
    \/ \E r \in Requests : Send(r)
    \/ \E r \in Requests : Reject(r)
    \/ \E r \in Requests : NotFound(r)
    \/ \E r \in Requests : Handle(r)

Spec == Init /\ [][Next]_vars

(***************************************************************************)
(* generateRandomString(sizeInKB) alone, one loop iteration per step.      *)
(***************************************************************************)
GenInit ==
    /\ pc = "start"
    /\ exitCode = <<>>
    /\ stdout = <<>>
    /\ stderr = <<>>
    /\ busyPorts = {}
    /\ reqs = [r \in Requests |-> NoRequest]
    /\ resp = [r \in Requests |-> <<>>]
    /\ drawn = 0
    /\ gen \in {[pc |-> "loop", sizeInKB |-> k, st |-> loopStart(1),
                  ret |-> EmptyString] : k \in 0..MaxSizeInKB}
    /\ fmt = FmtIdle

\* the loop condition holds: one run of the loop body
GenDraw ==
    /\ gen.pc = "loop"
    /\ loopCond(gen.st, gen.sizeInKB * 1024)
    /\ gen' = [gen EXCEPT !.st = loopBody(gen.st)]
    /\ drawn' = drawn + 1
    /\ UNCHANGED serverVars
    /\ UNCHANGED fmt

\* the loop condition fails: return result.substring(0, sizeInBytes)
GenReturn ==
    /\ gen.pc = "loop"
    /\ ~loopCond(gen.st, gen.sizeInKB * 1024)
    /\ gen' = [gen EXCEPT !.pc = "done",
                          !.ret = substring(gen.st.result, gen.sizeInKB * 1024)]
    /\ UNCHANGED serverVars
    /\ UNCHANGED <<drawn, fmt>>

GenNext == GenDraw \/ GenReturn

GenSpec == GenInit /\ [][GenNext]_vars

\* a function that was called runs until it returns
GenFairSpec == GenInit /\ [][GenNext]_vars /\ WF_vars(GenNext)

(***************************************************************************)
(* formatTimestamp() alone, for the readings new Date() can give.          *)
(***************************************************************************)
EdgeHours == {0, 9, 10, 23}

EdgeSixtieths == {0, 9, 10, 59}

EdgeMilliseconds == {0, 9, 10, 99, 100, 999}

\* every hour with every millisecond, and every minute with every second,
\* the other fields at the edges of their digit counts
Clocks ==
    [h : Hours, m : EdgeSixtieths, s : EdgeSixtieths, ms : Milliseconds]
        \cup [h : EdgeHours, m : Minutes, s : Seconds, ms : EdgeMilliseconds]

TsInit ==
    /\ pc = "start"
    /\ exitCode = <<>>
    /\ stdout = <<>>
    /\ stderr = <<>>
    /\ busyPorts = {}
    /\ reqs = [r \in Requests |-> NoRequest]
    /\ resp = [r \in Requests |-> <<>>]
    /\ drawn = 0
    /\ gen = GenIdle
    /\ fmt \in {[pc |-> "call", now |-> c, out |-> <<>>] : c \in Clocks}

TsFormat ==
    /\ fmt.pc = "call"
    /\ fmt' = [fmt EXCEPT !.pc = "done", !.out = formatTimestamp(fmt.now)]
    /\ UNCHANGED serverVars
    /\ UNCHANGED <<drawn, gen>>

TsNext == TsFormat

TsSpec == TsInit /\ [][TsNext]_vars

(***************************************************************************)
(* Properties.                                                             *)
(***************************************************************************)
\* the caller identifier and the protocol label of an arrival line
lineId(line) == line[Len(line) - 3]

lineProtocol(line) == line[Len(line) - 1]

IsPostRoot(r) == reqs[r].method = "POST" /\ reqs[r].url = "/"

Done(r) == reqs[r].state = "done"

\* the requests the listener parsed and routed
Routed(r) == Done(r) /\ reqs[r].framing = "HTTP/1.1"

Handled(r) == Done(r) /\ resp[r] /= <<>> /\ resp[r][1].handled

\* C1: every POST / request the listener routes is answered by the handler
\* with status 200 and a body whose status is "ok" and whose data is a string
\* of exactly 307200 characters, whatever my_id header it carries.
C1_PostRootReply ==
    \A r \in Requests :
        /\ (Routed(r) /\ IsPostRoot(r)) => Handled(r)
        /\ Handled(r) =>
              /\ resp[r][1].status = 200
              /\ DOMAIN resp[r][1].body = {"status", "data"}
              /\ resp[r][1].body.status = "ok"
              /\ resp[r][1].body.data.length = 307200
              /\ countChars(resp[r][1].body.data) = 307200

C1_Witness ==
    \E r \in Requests :
        /\ Handled(r)
        /\ reqs[r].my_id = <<"">>
        /\ resp[r][1].status = 200
        /\ countChars(resp[r][1].body.data) = 307200

\* C3 as claimed: the identifier in the arrival line is the value of the
\* my_id header whenever the header is present, the empty string included,
\* and "unknown" only when the header is absent.
C3_LoggedIdIsHeader ==
    \A r \in Requests :
        Handled(r) =>
            \A i \in 1..Len(reqs[r].lines) :
                lineId(stdout[reqs[r].lines[i]]) =
                    (IF reqs[r].my_id = <<>> THEN "unknown" ELSE reqs[r].my_id[1])

\* C4 as claimed: a POST / request reaches the handler and gets the 200
\* response whether it arrives as HTTP/1.1 or as cleartext HTTP/2.
C4_BothProtocolsServed ==
    \A r \in Requests :
        (Done(r) /\ IsPostRoot(r)) =>
            /\ resp[r] /= <<>>
            /\ resp[r][1].handled
            /\ resp[r][1].status = 200

\* C5: the protocol label of every arrival line is "HTTP/2" exactly when the
\* request was served over HTTP/2 framing and "HTTP/1.1" otherwise, and for
\* every request the listener serves the :scheme test agrees with the framing.
C5_LabelIsFraming ==
    \A r \in Requests :
        /\ (reqs[r].state /= "idle" /\ serves(reqs[r].framing)) =>
              (truthy(get(headersOf(reqs[r]), ":scheme")) <=> reqs[r].framing = "h2c")
        /\ Handled(r) =>
              /\ Len(reqs[r].lines) = 1
              /\ lineProtocol(stdout[reqs[r].lines[1]]) =
                    (IF reqs[r].framing = "h2c" THEN "HTTP/2" ELSE "HTTP/1.1")

C5_Witness ==
    \E r \in Requests :
        /\ Handled(r)
        /\ reqs[r].framing = "HTTP/1.1"
        /\ lineProtocol(stdout[reqs[r].lines[1]]) = "HTTP/1.1"

RunningLines == {i \in 1..Len(stdout) : stdout[i] = runningLine}

Served == {r \in Requests : resp[r] /= <<>>}

\* C6: startup has two outcomes.  If listen fails the error goes to stderr
\* and the process exits with code 1, never having logged the running message
\* or served a request; if listen succeeds the running message is logged
\* once, after the bind, and the process does not exit.  No run both logs the
\* running message and exits with code 1.
C6_StartupOutcomes ==
    /\ pc \in {"start", "catch", "bound", "running", "exited"}
    /\ Cardinality(RunningLines) <= 1
    /\ ~(RunningLines /= {} /\ exitCode /= <<>>)
    /\ (pc = "exited") <=> (exitCode /= <<>>)
    /\ pc \in {"catch", "exited"} =>
          /\ port \in busyPorts
          /\ RunningLines = {}
          /\ Served = {}
    /\ pc = "exited" => (exitCode = <<1>> /\ Len(stderr) = 1)
    /\ pc \in {"bound", "running"} =>
          /\ port \notin busyPorts
          /\ exitCode = <<>>
          /\ stderr = <<>>
    /\ (pc = "running") <=> (RunningLines = {1})
    /\ Served /= {} => RunningLines = {1}

C6_Witness ==
    /\ pc = "exited"
    /\ exitCode = <<1>>
    /\ stderr /= <<>>
    /\ stdout = <<>>

\* what one step that finishes request r may change
FinishesOnly(r) ==
    /\ pc' = pc
    /\ exitCode' = exitCode
    /\ stderr' = stderr
    /\ busyPorts' = busyPorts
    /\ \A q \in Requests \ {r} : reqs'[q] = reqs[q] /\ resp'[q] = resp[q]
    /\ Len(resp'[r]) = 1
    /\ IF resp'[r][1].handled
       THEN /\ Len(stdout') = Len(stdout) + 1
            /\ SubSeq(stdout', 1, Len(stdout)) = stdout
       ELSE stdout' = stdout /\ drawn' = drawn

\* C7: under any interleaving of requests, every request gets exactly one
\* response; the data of a response is built only from random chunks drawn
\* while that same request was handled, and no chunk serves two requests; a
\* request that was sent can be processed whatever state the others are in;
\* and handling a request changes nothing but the log, which grows by one line.
C7_Independent ==
    /\ [](\A r \in Requests :
            /\ Len(resp[r]) = (IF Done(r) THEN 1 ELSE 0)
            /\ Handled(r) =>
                  /\ Len(reqs[r].draws) = 2
                  /\ SegSources(resp[r][1].body.data)
                        = reqs[r].draws[1]..reqs[r].draws[2]
                  /\ reqs[r].draws[2] <= drawn
                  /\ \A q \in Requests \ {r} :
                        Handled(q) =>
                            SegSources(resp[r][1].body.data)
                                \cap SegSources(resp[q][1].body.data) = {}
            /\ (pc = "running" /\ reqs[r].state = "sent") =>
                  ENABLED (Reject(r) \/ NotFound(r) \/ Handle(r)))
    /\ [][\A r \in Requests :
             (reqs[r].state = "sent" /\ reqs'[r].state = "done") => FinishesOnly(r)]_vars

C7_Witness ==
    \E r, q \in Requests :
        /\ r /= q
        /\ Handled(r)
        /\ Handled(q)
        /\ reqs[r].draws[2] < reqs[q].draws[1]

ArrivalLines == {i \in 1..Len(stdout) : stdout[i] /= runningLine}

\* C8: a routed request whose method is not POST or whose path is not "/"
\* never runs the handler: it logs no line, draws no payload and gets the 404
\* reply; the handler runs, and logs exactly one line, only for POST /.
C8_OnlyPostRoot ==
    /\ \A r \in Requests :
          /\ (Routed(r) /\ ~IsPostRoot(r)) =>
                /\ resp[r] = <<[status |-> 404, handled |-> FALSE]>>
                /\ reqs[r].lines = <<>>
                /\ reqs[r].draws = <<>>
          /\ Handled(r) => (IsPostRoot(r) /\ Len(reqs[r].lines) = 1)
          /\ (Done(r) /\ ~Handled(r)) => (reqs[r].lines = <<>> /\ reqs[r].draws = <<>>)
    /\ ArrivalLines = {reqs[r].lines[1] : r \in {q \in Requests : Handled(q)}}
    /\ Cardinality(ArrivalLines) = Cardinality({q \in Requests : Handled(q)})
    /\ drawn = 225 * Cardinality({q \in Requests : Handled(q)})

C8_Witness ==
    \E r \in Requests :
        /\ Done(r)
        /\ reqs[r].framing = "HTTP/1.1"
        /\ reqs[r].method = "GET"
        /\ reqs[r].url = "/"
        /\ resp[r][1].status = 404
        /\ ArrivalLines = {}

\* C2: for every size in KiB, generateRandomString(size) returns a string of
\* exactly size * 1024 characters, the empty string for size 0; the call the
\* handler makes and the loop run step by step return the same string.
C2_ExactLength ==
    gen.pc = "done" =>
        /\ gen.ret.length = gen.sizeInKB * 1024
        /\ countChars(gen.ret) = gen.sizeInKB * 1024
        /\ (gen.sizeInKB = 0 => gen.ret = EmptyString)
        /\ generateRandomString(gen.sizeInKB, 1) =
              [returned |-> TRUE, ret |-> gen.ret, draws |-> drawn]

C2_Witness ==
    /\ gen.pc = "done"
    /\ gen.sizeInKB = 7
    /\ countChars(gen.ret) = 7168
    /\ drawn = 6

\* C10: for every size the loop of generateRandomString ends.  Each draw
\* appends 1368 characters and is made only while the accumulator is shorter
\* than size * 1024; when the loop stops the accumulator has reached the
\* target and exceeds it by less than one chunk, so the cut removes fewer
\* than 1368 characters; size 300 takes exactly 225 draws.
C10_LoopEnds ==
    /\ <>(gen.pc = "done")
    /\ [](gen.pc \in {"loop", "done"} =>
            /\ gen.st.id = drawn + 1
            /\ gen.st.result.length = 1368 * drawn
            /\ countChars(gen.st.result) = 1368 * drawn
            /\ drawn > 0 => 1368 * (drawn - 1) < gen.sizeInKB * 1024)
    /\ [](gen.pc = "done" =>
            /\ gen.st.result.length >= gen.sizeInKB * 1024
            /\ gen.st.result.length - gen.sizeInKB * 1024 < 1368
            /\ countChars(gen.st.result) - countChars(gen.ret) < 1368
            /\ (gen.sizeInKB = 300 => drawn = 225))
    /\ [][gen.pc = "loop" /\ drawn' /= drawn =>
             /\ drawn' = drawn + 1
             /\ gen.st.result.length < gen.sizeInKB * 1024
             /\ gen'.st.result.length = gen.st.result.length + 1368]_vars

C10_Witness ==
    /\ gen.pc = "done"
    /\ gen.sizeInKB = 300
    /\ drawn = 225
    /\ gen.st.result.length = 307800
    /\ gen.ret.length = 307200

IsDigit(c) == \E d \in 1..10 : Digits[d] = c

DigitValue(c) == (CHOOSE d \in 1..10 : Digits[d] = c) - 1

\* the number a string of digits reads as
NumberOf(ds) ==
    LET value[i \in 0..Len(ds)] ==
            IF i = 0 THEN 0 ELSE 10 * value[i - 1] + DigitValue(ds[i])
    IN  value[Len(ds)]

\* C9: for every clock value formatTimestamp returns [HH:MM:SS.ssssss]: 17
\* characters, hours, minutes and seconds as 2 digits, the sub-second field as
\* 6 digits that read as the millisecond value, so that its first three
\* digits are "000" and its value is at most 999.
C9_TimestampShape ==
    fmt.pc = "done" =>
        /\ Len(fmt.out) = 17
        /\ fmt.out[1] = "["
        /\ fmt.out[4] = ":"
        /\ fmt.out[7] = ":"
        /\ fmt.out[10] = "."
        /\ fmt.out[17] = "]"
        /\ \A i \in {2, 3, 5, 6, 8, 9} \cup 11..16 : IsDigit(fmt.out[i])
        /\ NumberOf(SubSeq(fmt.out, 2, 3)) = fmt.now.h
        /\ NumberOf(SubSeq(fmt.out, 5, 6)) = fmt.now.m
        /\ NumberOf(SubSeq(fmt.out, 8, 9)) = fmt.now.s
        /\ NumberOf(SubSeq(fmt.out, 11, 16)) = fmt.now.ms
        /\ SubSeq(fmt.out, 11, 13) = <<"0", "0", "0">>
        /\ NumberOf(SubSeq(fmt.out, 11, 16)) <= 999

C9_Witness ==
    /\ fmt.pc = "done"
    /\ fmt.now = [h |-> 23, m |-> 59, s |-> 59, ms |-> 999]
    /\ fmt.out = <<"[", "2", "3", ":", "5", "9", ":", "5", "9", ".",
                   "0", "0", "0", "9", "9", "9", "]">>

====
